---- MODULE Spec2Model ----
(***************************************************************************)
(* A state-machine model of pulser.simulation.Simulation                   *)
(* (src/pulser/simulation/simulation.py): configuration handling, noise    *)
(* state, sample extraction, Hamiltonian assembly, the run orchestrator    *)
(* and the operator builder.                                               *)
(*                                                                         *)
(* Conventions of the encoding                                             *)
(*  - a qubit identifier is a record [tag, n]: the integer label n         *)
(*    (tag "int") or the string label "q<n>" (tag "str");                  *)
(*  - eta and the uniform draws compared with it are counted in halves:    *)
(*    eta 0, 1, 2 stand for 0.0, 0.5, 1.0 and a draw is 0 or 1 (a uniform  *)
(*    draw lies in [0, 1), so it is never 2);                              *)
(*  - amplitudes are counted in units of 1/AmpOne, so that the amplitude   *)
(*    noise factor (at most about 1) is an integer;                        *)
(*  - a temperature is a Python float, kept bit for bit (see Float): a     *)
(*    SimConfig takes it in microkelvin and holds it in kelvin.            *)
(*  - a time is a whole number of ns (the code keeps microseconds, the    *)
(*    same numbers divided by 1000); a sampling rate and a float given to  *)
(*    the evaluation_times setter are fractions num/den.                   *)
(***************************************************************************)
EXTENDS Integers, Sequences, FiniteSets, TLC

VARIABLES
    seq,             \* the Sequence being simulated (fixed at construction)
    config,          \* self._config
    bad_atoms,       \* self._bad_atoms
    doppler_detune,  \* self._doppler_detune
    samples,         \* self.samples
    hamiltonian,     \* self._hamiltonian
    collapse_ops,    \* self._collapse_ops
    basis_name,      \* self.basis_name (with it self.dim, self.basis, self.op_matrix)
    initial_state,   \* self._initial_state
    epochs,          \* history: which noise draw the samples and the Hamiltonian rest on
    pc,              \* position of the thread of control: "idle" or inside run
    rs,              \* run's local variables while pc = "loop"
    outcome,         \* what the last call did: its name, its exception, its result
    op_result,       \* result of the last build_operator call
    sampling_times,  \* self.sampling_times, in ns
    eval_times,      \* self._eval_times_array, in ns
    operators        \* self.operators: the operators built so far, by key

vars == << seq, config, bad_atoms, doppler_detune, samples, hamiltonian,
           collapse_ops, basis_name, initial_state, epochs, pc, rs,
           outcome, op_result, sampling_times, eval_times, operators >>

-----------------------------------------------------------------------------
(* Bounds of the model *)

\* largest value of SimConfig.runs
MaxRuns == 2
\* largest value of SimConfig.samples_per_run
MaxSamples == 2
\* total duration of a sequence, in ns
Duration == 4
\* longest duration of the sequences the sampling rate is tried on, in ns
MaxDuration == 8

-----------------------------------------------------------------------------
(* Qubit identifiers and registers *)

IntId(n) == [tag |-> "int", n |-> n]
StrId(n) == [tag |-> "str", n |-> n]

\* labels 0, 1
IntRegister == << IntId(0), IntId(1) >>
\* labels "q0", "q1"
StrRegister == << StrId(0), StrId(1) >>

Range(s) == { s[i] : i \in DOMAIN s }

-----------------------------------------------------------------------------
(* The Sequence collaborator: what the simulation reads from it *)

\* a _TimeSlot of a channel's schedule; a pulse has constant waveforms
PulseSlot(ti, tf, targets, amp, det, phase) ==
    [ti |-> ti, tf |-> tf, isPulse |-> TRUE, targets |-> targets,
     amp |-> amp, det |-> det, phase |-> phase]
DelaySlot(ti, tf, targets) ==
    [ti |-> ti, tf |-> tf, isPulse |-> FALSE, targets |-> targets,
     amp |-> 0, det |-> 0, phase |-> 0]
Channel(addr, basis, slots) == [addr |-> addr, basis |-> basis, slots |-> slots]

\* end of the SLM mask, and of the first pulse of the two-pulse sequences
MaskEnd == Duration \div 2

MkSequence(name, in_xy, reg, channels, mask_targets, mask_time) ==
    [name |-> name, in_xy |-> in_xy, register |-> reg, channels |-> channels,
     slm_mask_targets |-> mask_targets, slm_mask_time |-> mask_time,
     duration |-> Duration, rate |-> [num |-> 1, den |-> 1]]

\* one Global ground-rydberg channel, one pulse over the whole duration
SeqRydbergGlobal(reg) ==
    MkSequence("rydberg_global", FALSE, reg,
        << Channel("Global", "ground-rydberg",
               << PulseSlot(0, Duration, Range(reg), 1, 0, 0) >>) >>,
        {}, << >>)
\* one Local digital channel addressing the second qubit
SeqRamanLocal(reg) ==
    MkSequence("raman_local", FALSE, reg,
        << Channel("Local", "digital",
               << PulseSlot(0, Duration, {reg[2]}, 1, 1, 1) >>) >>,
        {}, << >>)
\* a Global ground-rydberg pulse followed by a Local digital pulse
SeqAllBasis(reg) ==
    MkSequence("rydberg_global+raman_local", FALSE, reg,
        << Channel("Global", "ground-rydberg",
               << PulseSlot(0, MaskEnd, Range(reg), 1, 0, 0),
                  DelaySlot(MaskEnd, Duration, Range(reg)) >>),
           Channel("Local", "digital",
               << DelaySlot(0, MaskEnd, {reg[2]}),
                  PulseSlot(MaskEnd, Duration, {reg[2]}, 1, 1, 1) >>) >>,
        {}, << >>)
\* XY mode: one Global microwave channel
SeqXY(reg) ==
    MkSequence("mw_global", TRUE, reg,
        << Channel("Global", "XY",
               << PulseSlot(0, Duration, Range(reg), 1, 1, 0) >>) >>,
        {}, << >>)
\* two Global ground-rydberg pulses, an SLM mask on the second qubit during
\* the first one
SeqSLM(reg) ==
    MkSequence("rydberg_global+slm", FALSE, reg,
        << Channel("Global", "ground-rydberg",
               << PulseSlot(0, MaskEnd, Range(reg), 1, 0, 0),
                  PulseSlot(MaskEnd, Duration, Range(reg), 1, 1, 1) >>) >>,
        {reg[2]}, << 0, MaskEnd >>)

\* the sequences a simulation is constructed on
Sequences ==
    { SeqRydbergGlobal(StrRegister), SeqRamanLocal(IntRegister),
      SeqAllBasis(IntRegister), SeqXY(StrRegister), SeqSLM(StrRegister) }

\* with the labels 1, 0: integer labels that are not the positional indices
Registers == { IntRegister, StrRegister, << IntId(1), IntId(0) >> }

\* self._interaction
Interaction(s) == IF s.in_xy THEN "XY" ELSE "ising"
\* self._qdict.keys(), self._qid_index (positions counted from 0), self._size
QubitIds(s) == Range(s.register)
QidIndex(s, qid) == (CHOOSE i \in DOMAIN s.register : s.register[i] = qid) - 1
Size(s) == Len(s.register)

SUPPORTED_NOISE(interaction) ==
    IF interaction = "ising" THEN {"dephasing", "doppler", "amplitude", "SPAM"}
    ELSE {"SPAM"}

-----------------------------------------------------------------------------
(* SimConfig: the configuration object the simulation consumes *)


\* A Python float: the IEEE 754 binary64 number m * 2^e with
\* 2^52 <= m < 2^53, m being written to base 2^14 in four limbs, the least
\* significant first
Limb == 16384
Float(m, e) == [m |-> m, e |-> e]

\* float(n) for an integer 1 <= n < 2048
RECURSIVE Scaled(_, _)
Scaled(top, e) ==
    IF top >= 1024 THEN Float(<< 0, 0, 0, top >>, e) ELSE Scaled(2 * top, e - 1)
FromInt(n) == Scaled(n, -42)

\* the limbs of the number whose limbs, before the carries, are cols
RECURSIVE Propagate(_, _, _)
Propagate(cols, k, carry) ==
    IF k > Len(cols) THEN << carry, 0 >>
    ELSE << (cols[k] + carry) % Limb >>
         \o Propagate(cols, k + 1, (cols[k] + carry) \div Limb)

\* m + 1, from limb i on
RECURSIVE Increment(_, _)
Increment(m, i) ==
    IF m[i] = Limb - 1 THEN Increment([m EXCEPT ![i] = 0], i + 1)
    ELSE [m EXCEPT ![i] = @ + 1]

\* the 53 leading bits of the product p (of 106 bits, or 105), rounded to
\* nearest and on a tie to even, with the exponent e of p's last bit
Rounded(p, e) ==
    LET two_s == IF p[8] >= 128 THEN 2048 ELSE 1024
        m == << (p[4] \div two_s) + (p[5] % two_s) * (Limb \div two_s),
                (p[5] \div two_s) + (p[6] % two_s) * (Limb \div two_s),
                (p[6] \div two_s) + (p[7] % two_s) * (Limb \div two_s),
                (p[7] \div two_s) + (p[8] % two_s) * (Limb \div two_s) >>
        rest == p[4] % two_s
        half == two_s \div 2
        round_up == /\ rest >= half
                    /\ \/ rest % half # 0
                       \/ p[1] # 0 \/ p[2] # 0 \/ p[3] # 0
                       \/ m[1] % 2 = 1
        shifted == e + 42 + (IF p[8] >= 128 THEN 11 ELSE 10)
    IN  IF ~round_up THEN Float(m, shifted)
        ELSE IF Increment(m, 1)[4] = 2048
        THEN Float(<< 0, 0, 0, 1024 >>, shifted + 1)
        ELSE Float(Increment(m, 1), shifted)

\* x * y: the exact product of the limbs, then the rounding
FMul(x, y) ==
    Rounded(
      Propagate(
        << x.m[1] * y.m[1],
           x.m[1] * y.m[2] + x.m[2] * y.m[1],
           x.m[1] * y.m[3] + x.m[2] * y.m[2] + x.m[3] * y.m[1],
           x.m[1] * y.m[4] + x.m[2] * y.m[3] + x.m[3] * y.m[2] + x.m[4] * y.m[1],
           x.m[2] * y.m[4] + x.m[3] * y.m[3] + x.m[4] * y.m[2],
           x.m[3] * y.m[4] + x.m[4] * y.m[3],
           x.m[4] * y.m[4] >>, 1, 0),
      x.e + y.e)

\* SimConfig(**args): args.temperature is in microkelvin
SimConfig(args) ==
    [isSimConfig |-> TRUE,
     noise |-> args.noise,
     runs |-> args.runs,
     samples_per_run |-> args.samples_per_run,
     \* temperature * 1.0e-6
     temperature |-> FMul(args.temperature,
                          Float(<< 11661, 727, 12154, 1073 >>, -72)),
     laser_waist |-> args.laser_waist,
     eta |-> args.eta,
     epsilon |-> args.epsilon,
     epsilon_prime |-> args.epsilon_prime,
     dephasing_prob |-> args.dephasing_prob]

\* keyword arguments of a SimConfig; v picks the values of the parameters
\* that do not steer the control flow, 1 picking the default ones
ConfigArgs(noise, eta, v, runs, spr) ==
    [noise |-> noise, runs |-> runs, samples_per_run |-> spr,
     temperature |-> FromInt(IF v = 1 THEN 50 ELSE 1000),
     laser_waist |-> 175 * v, eta |-> eta,
     epsilon |-> v, epsilon_prime |-> 5 * v, dephasing_prob |-> 5 * v]

\* SimConfig(): no noise, a small positive eta
DefaultSimConfig == SimConfig(ConfigArgs({}, 1, 1, MaxRuns, MaxSamples))

\* an object that is not a SimConfig
NotASimConfig == [isSimConfig |-> FALSE]

\* dataclasses.asdict(config) without spam_dict and doppler_sigma
asdict(c) ==
    [noise |-> c.noise, runs |-> c.runs, samples_per_run |-> c.samples_per_run,
     temperature |-> c.temperature, laser_waist |-> c.laser_waist,
     eta |-> c.eta, epsilon |-> c.epsilon, epsilon_prime |-> c.epsilon_prime,
     dephasing_prob |-> c.dephasing_prob]

\* "SPAM" in self.config.noise and self.config.eta > 0
SpamOn(c) == "SPAM" \in c.noise /\ c.eta > 0

-----------------------------------------------------------------------------
(* Noise state *)

DetuneDraws == {-1, 1}
\* amplitude 1.0 in the unit of the amplitude samples
AmpOne == 2
AmpFactors == {1, AmpOne}

\* the pulse slots of Global channels, per target: one amplitude factor is
\* drawn for each when amplitude noise is on
AmpKeys(s) ==
    UNION { UNION { { << ci, si, q >> : q \in s.channels[ci].slots[si].targets } :
                    si \in { i \in DOMAIN s.channels[ci].slots :
                                s.channels[ci].slots[i].isPulse } } :
            ci \in { i \in DOMAIN s.channels : s.channels[i].addr = "Global" } }

\* the patterns of np.random.uniform(size) taken: no draw is below 1/2, the
\* first qubit's is, all are
UniformPatterns(s) ==
    { [q \in QubitIds(s) |-> 1],
      [q \in QubitIds(s) |-> IF q = s.register[1] THEN 0 ELSE 1],
      [q \in QubitIds(s) |-> 0] }

\* the random numbers one _construct_hamiltonian(update_and_extract=True)
\* consumes under configuration c: u (uniform, SPAM), g (normal, doppler),
\* a (amplitude factor per pulse slot and qubit). Of the normal draws those
\* are taken where the first qubit draws either value, and of the amplitude
\* factors the constant ones.
NoiseDraws(s, c) ==
    [u : IF SpamOn(c) THEN UniformPatterns(s)
         ELSE {[q \in QubitIds(s) |-> 0]},
     g : IF "doppler" \in c.noise
         THEN { [q \in QubitIds(s) |-> IF q = s.register[1] THEN x ELSE 1] :
                  x \in DetuneDraws }
         ELSE {[q \in QubitIds(s) |-> 0]},
     a : IF "amplitude" \in c.noise
         THEN { [k \in AmpKeys(s) |-> x] : x \in AmpFactors }
         ELSE {[k \in AmpKeys(s) |-> AmpOne]}]

\* _update_noise: the new (bad_atoms, doppler_detune)
update_noise(s, c, bad, dop, d) ==
    [bad |-> IF SpamOn(c) THEN [q \in QubitIds(s) |-> d.u[q] < c.eta] ELSE bad,
     dop |-> IF "doppler" \in c.noise THEN d.g ELSE dop]

-----------------------------------------------------------------------------
(* _extract_samples *)

BasesOf(s) == IF s.in_xy THEN {"XY"} ELSE {"ground-rydberg", "digital"}
Addressings == {"Global", "Local"}

\* the empty samples dictionary
EmptySamples(s) == [addr \in Addressings |-> [b \in BasesOf(s) |-> << >>]]

prepare_dict(s) ==
    [amp |-> [t \in 0..(s.duration - 1) |-> 0],
     det |-> [t \in 0..(s.duration - 1) |-> 0],
     phase |-> [t \in 0..(s.duration - 1) |-> 0]]

\* arr[ti:tf] += v
AddOver(arr, ti, tf, v) ==
    [t \in DOMAIN arr |-> IF ti <= t /\ t < tf THEN arr[t] + v ELSE arr[t]]
\* arr[0:tf] = 0
ZeroUntil(arr, tf) == [t \in DOMAIN arr |-> IF t < tf THEN 0 ELSE arr[t]]

\* write_samples: noise_det and noise_amp as the configuration and the noise
\* state give them for qubit qid (key names the slot's amplitude draw)
write_samples(c, dop, d, slot, samples_dict, is_global_pulse, qid, key) ==
    LET noise_det == IF "doppler" \in c.noise THEN dop[qid] ELSE 0
        noise_amp == IF "amplitude" \in c.noise /\ is_global_pulse
                     THEN d.a[key] ELSE AmpOne
    IN  [amp |-> AddOver(samples_dict.amp, slot.ti, slot.tf, slot.amp * noise_amp),
         det |-> AddOver(samples_dict.det, slot.ti, slot.tf, slot.det + noise_det),
         phase |-> AddOver(samples_dict.phase, slot.ti, slot.tf, slot.phase)]

\* the coherent global path writes the shared entry without a qubit
write_samples_shared(slot, samples_dict) ==
    [amp |-> AddOver(samples_dict.amp, slot.ti, slot.tf, slot.amp * AmpOne),
     det |-> AddOver(samples_dict.det, slot.ti, slot.tf, slot.det),
     phase |-> AddOver(samples_dict.phase, slot.ti, slot.tf, slot.phase)]

\* for qubit in slot.targets: create the Local entry if missing, then write it
\* unless skip[qubit]
WriteTargets(s, c, dop, d, ci, si, local, is_global, skip) ==
    LET slot == s.channels[ci].slots[si]
    IN  [q \in (DOMAIN local) \cup slot.targets |->
            IF q \notin slot.targets THEN local[q]
            ELSE LET entry == IF q \in DOMAIN local THEN local[q]
                              ELSE prepare_dict(s)
                 IN  IF skip[q] THEN entry
                     ELSE write_samples(c, dop, d, slot, entry, is_global, q,
                                        << ci, si, q >>)]

\* the slots of a Global channel when noise is a subset of {dephasing}
RECURSIVE CoherentSlots(_, _, _, _, _, _, _, _)
CoherentSlots(s, c, dop, d, ci, si, slm_on, smp) ==
    LET ch == s.channels[ci] IN
    IF si > Len(ch.slots) THEN smp
    ELSE LET slot == ch.slots[si] IN
         IF ~slot.isPulse
         THEN CoherentSlots(s, c, dop, d, ci, si + 1, slm_on, smp)
         ELSE IF slm_on /\ s.slm_mask_time[2] > slot.ti
         THEN CoherentSlots(s, c, dop, d, ci, si + 1, slm_on,
                  [smp EXCEPT !["Local"][ch.basis] =
                      WriteTargets(s, c, dop, d, ci, si, @, TRUE,
                                   [q \in QubitIds(s) |-> FALSE])])
         ELSE CoherentSlots(s, c, dop, d, ci, si + 1, FALSE,
                  [smp EXCEPT !["Global"][ch.basis] =
                      write_samples_shared(slot,
                          IF DOMAIN @ = {} THEN prepare_dict(s) ELSE @)])

\* the slots of a channel on the general path: everything is written per qubit
RECURSIVE LocalSlots(_, _, _, _, _, _, _, _)
LocalSlots(s, c, bad, dop, d, ci, si, smp) ==
    LET ch == s.channels[ci] IN
    IF si > Len(ch.slots) THEN smp
    ELSE IF ~ch.slots[si].isPulse
         THEN LocalSlots(s, c, bad, dop, d, ci, si + 1, smp)
         ELSE LocalSlots(s, c, bad, dop, d, ci, si + 1,
                  [smp EXCEPT !["Local"][ch.basis] =
                      WriteTargets(s, c, dop, d, ci, si, @,
                                   ch.addr = "Global", bad)])

\* whether this channel takes the coherent global path
CoherentGlobal(c, ch) == ch.addr = "Global" /\ c.noise \subseteq {"dephasing"}

\* the SLM mask, applied at the end of each channel: a KeyError when a
\* masked qubit has no Local entry in the channel's basis
MaskApplies(s) == s.slm_mask_targets # {} /\ s.slm_mask_time # << >>
MaskKeyError(s, basis, smp) ==
    MaskApplies(s) /\ ~(s.slm_mask_targets \subseteq DOMAIN smp["Local"][basis])
ApplyMask_skipped(s, basis, smp) == smp
ApplyMask(s, basis, smp) ==
    IF ~MaskApplies(s) THEN smp
    ELSE [smp EXCEPT !["Local"][basis] =
            [q \in DOMAIN @ |->
                IF q \in s.slm_mask_targets
                THEN [amp |-> ZeroUntil(@[q].amp, s.slm_mask_time[2]),
                      det |-> ZeroUntil(@[q].det, s.slm_mask_time[2]),
                      phase |-> ZeroUntil(@[q].phase, s.slm_mask_time[2])]
                ELSE @[q]]]

\* for channel in declared_channels: ...; the result is the samples table and
\* the exception raised, if any (the table is then as the failing channel
\* left it)
RECURSIVE ExtractChannels(_, _, _, _, _, _, _)
ExtractChannels(s, c, bad, dop, d, ci, smp) ==
    IF ci > Len(s.channels) THEN [exc |-> "none", samples |-> smp]
    ELSE LET ch == s.channels[ci]
             written == IF CoherentGlobal(c, ch)
                        THEN CoherentSlots(s, c, dop, d, ci, 1,
                                           s.slm_mask_targets # {}, smp)
                        ELSE LocalSlots(s, c, bad, dop, d, ci, 1, smp)
         IN  IF MaskKeyError(s, ch.basis, written)
             THEN [exc |-> "KeyError", samples |-> written]
             ELSE ExtractChannels(s, c, bad, dop, d, ci + 1,
                                  ApplyMask(s, ch.basis, written))

extract_samples(s, c, bad, dop, d) ==
    ExtractChannels(s, c, bad, dop, d, 1, EmptySamples(s))

-----------------------------------------------------------------------------
(* _build_basis_and_op_matrices *)

\* no samples => empty dictionary entry => False
NoSamples(smp, basis) ==
    DOMAIN smp["Global"][basis] = {} /\ DOMAIN smp["Local"][basis] = {}

build_basis_name(s, smp) ==
    IF Interaction(s) = "XY" THEN "XY"
    ELSE IF NoSamples(smp, "digital") THEN "ground-rydberg"
    ELSE IF NoSamples(smp, "ground-rydberg") THEN "digital"
    ELSE "all"

\* self.dim
Dim(bn) == IF bn = "all" THEN 3 ELSE 2

\* self.basis: the level qutip.basis(dim, i) of each state label
Basis(bn) ==
    CASE bn = "XY" -> [b \in {"u", "d"} |-> IF b = "u" THEN 0 ELSE 1]
      [] bn = "ground-rydberg" -> [b \in {"r", "g"} |-> IF b = "r" THEN 0 ELSE 1]
      [] bn = "digital" -> [b \in {"g", "h"} |-> IF b = "g" THEN 0 ELSE 1]
      [] OTHER -> [b \in {"r", "g", "h"} |->
                      IF b = "r" THEN 0 ELSE IF b = "g" THEN 1 ELSE 2]

Projectors(bn) ==
    CASE bn = "XY" -> { <<"u","u">>, <<"d","u">>, <<"u","d">>, <<"d","d">> }
      [] bn = "ground-rydberg" -> { <<"g","r">>, <<"r","r">>, <<"g","g">> }
      [] bn = "digital" -> { <<"h","g">>, <<"h","h">>, <<"g","g">> }
      [] OTHER -> { <<"g","r">>, <<"h","g">>, <<"r","r">>, <<"g","g">>,
                    <<"h","h">> }

\* "sigma_" + proj
SigmaName(proj) ==
    CASE proj = <<"g","r">> -> "sigma_gr" [] proj = <<"r","r">> -> "sigma_rr"
      [] proj = <<"g","g">> -> "sigma_gg" [] proj = <<"h","g">> -> "sigma_hg"
      [] proj = <<"h","h">> -> "sigma_hh" [] proj = <<"u","u">> -> "sigma_uu"
      [] proj = <<"d","u">> -> "sigma_du" [] proj = <<"u","d">> -> "sigma_ud"
      [] OTHER -> "sigma_dd"

\* single-qubit operators: the identity, |a><b| between two levels, and a
\* matrix handed in by the caller
Eye(dim) == [kind |-> "eye", a |-> dim, b |-> dim]
Ket_Bra(a, b) == [kind |-> "ketbra", a |-> a, b |-> b]
Qobj(k) == [kind |-> "qobj", a |-> k, b |-> k]

\* self.op_matrix
op_matrix(bn) ==
    [name \in {"I"} \cup { SigmaName(p) : p \in Projectors(bn) } |->
        IF name = "I" THEN Eye(Dim(bn))
        ELSE LET p == CHOOSE p \in Projectors(bn) : SigmaName(p) = name
             IN  Ket_Bra(Basis(bn)[p[1]], Basis(bn)[p[2]])]

-----------------------------------------------------------------------------
(* build_operator *)

\* an operator argument: a string key of op_matrix, or a matrix
Named(name) == [is_str |-> TRUE, name |-> name, matrix |-> Qobj(0)]
Explicit(matrix) == [is_str |-> FALSE, name |-> "", matrix |-> matrix]

\* a qubits argument: the string "global", or a list of identifiers
GlobalTarget == [global |-> TRUE, ids |-> << >>]
Ids(l) == [global |-> FALSE, ids |-> l]

Pair(operator, qubits) == [operator |-> operator, qubits |-> qubits]

\* op_list with operator at the positions of qubits (self._qid_index[qubit])
Place(s, op_list, operator, qubits) ==
    [k \in DOMAIN op_list |->
        IF \E j \in DOMAIN qubits : QidIndex(s, qubits[j]) = k - 1
        THEN operator ELSE op_list[k]]

\* build_operator(operations) from the i-th pair on, op_list being what the
\* pairs before it left. The result is the exception raised, if any, and
\* the operator: a sum (here the list of its terms) of tensor products (each
\* the list of its factors).
RECURSIVE build_operator_from(_, _, _, _, _)
build_operator_from(s, bn, operations, i, op_list) ==
    IF i > Len(operations)
    THEN [exc |-> "none", op |-> << op_list >>]
    ELSE
    LET operator == operations[i].operator
        qubits == operations[i].qubits
    IN  IF qubits.global
        THEN \* return sum(self.build_operator([(operator, [q_id])]) ...)
             LET each == [k \in DOMAIN s.register |->
                            build_operator_from(s, bn,
                               << Pair(operator, Ids(<< s.register[k] >>)) >>, 1,
                               [j \in DOMAIN s.register |-> op_matrix(bn)["I"]])]
             IN  IF \E k \in DOMAIN each : each[k].exc # "none"
                 THEN [exc |-> each[CHOOSE k \in DOMAIN each :
                                       /\ each[k].exc # "none"
                                       /\ \A j \in 1..(k - 1) :
                                            each[j].exc = "none"].exc,
                       op |-> << >>]
                 ELSE [exc |-> "none",
                       op |-> [k \in DOMAIN each |-> each[k].op[1]]]
        ELSE IF Cardinality(Range(qubits.ids)) < Len(qubits.ids)
        THEN [exc |-> "ValueError: Duplicate atom ids in argument list.",
              op |-> << >>]
        ELSE IF ~(Range(qubits.ids) \subseteq QubitIds(s))
        THEN [exc |-> "ValueError: Invalid qubit names", op |-> << >>]
        ELSE IF operator.is_str /\ operator.name \notin DOMAIN op_matrix(bn)
        THEN [exc |-> "ValueError: not a valid operator", op |-> << >>]
        ELSE build_operator_from(s, bn, operations, i + 1,
                Place(s, op_list,
                      IF operator.is_str THEN op_matrix(bn)[operator.name]
                      ELSE operator.matrix,
                      qubits.ids))

\* build_operator(operations)
build_operator(s, bn, operations) ==
    build_operator_from(s, bn, operations, 1,
                        [j \in DOMAIN s.register |-> op_matrix(bn)["I"]])

-----------------------------------------------------------------------------
(* _adapt_to_sampling_rate and _construct_hamiltonian *)

\* int(self._sampling_rate * self._tot_duration)
GridPoints(s) == (s.rate.num * s.duration) \div s.rate.den

\* np.linspace(0, duration - 1, n, dtype=int); the quotient is the one the
\* float computation gives for the durations of this model (the two part
\* from a duration of 31 ns on)
GridIndex_by_rate(s, i) == (i * s.rate.den) \div s.rate.num
GridIndex(s, i) == (i * (s.duration - 1)) \div (GridPoints(s) - 1)

adapt_to_sampling_rate(s, full_array) ==
    [i \in 0..(GridPoints(s) - 1) |-> full_array[GridIndex(s, i)]]

\* self.sampling_times: np.arange(self._tot_duration), adapted; a time is
\* kept in ns
SamplingTimes(s) ==
    adapt_to_sampling_rate(s, [t \in 0..(s.duration - 1) |-> t])

\* positions (from 0) of the pairs of itertools.combinations(qdict.keys(), 2)
\* that the interaction term keeps
InteractionPairs(s, bad, masked) ==
    { p \in (0..(Size(s) - 1)) \X (0..(Size(s) - 1)) :
        /\ p[1] < p[2]
        /\ ~bad[s.register[p[1] + 1]]
        /\ ~bad[s.register[p[2] + 1]]
        /\ ~(masked /\ (s.register[p[1] + 1] \in s.slm_mask_targets
                        \/ s.register[p[2] + 1] \in s.slm_mask_targets)) }

\* self._size - sum(self._bad_atoms.values())
EffectiveSize_ignoring_bad(s, bad) == Size(s)
EffectiveSize(s, bad) == Size(s) - Cardinality({ q \in QubitIds(s) : bad[q] })

\* make_interaction_term: the set of coupled pairs ({} is the zero operator)
make_interaction_term_unmasked(s, bad, masked) == InteractionPairs(s, bad, FALSE)
make_interaction_term(s, bad, masked) ==
    IF masked /\ EffectiveSize(s, bad)
                   - Cardinality({ q \in s.slm_mask_targets : ~bad[q] }) < 2
    THEN {}
    ELSE InteractionPairs(s, bad, masked)

\* the interaction entries of qobj_list: [pairs, coeff], coeff << >> for a
\* time-independent term
InteractionTerms(s, bn, bad) ==
    IF bn # "digital" /\ EffectiveSize(s, bad) > 1
    THEN IF s.slm_mask_time # << >>
         THEN LET coeff == [t \in 0..(s.duration - 1) |->
                               IF t < s.slm_mask_time[2] THEN 0 ELSE 1]
              IN  << [pairs |-> make_interaction_term(s, bad, FALSE),
                      coeff |-> adapt_to_sampling_rate(s, coeff)],
                     [pairs |-> make_interaction_term(s, bad, TRUE),
                      coeff |-> adapt_to_sampling_rate(s,
                                   [t \in DOMAIN coeff |-> 1 - coeff[t]])] >>
         ELSE << [pairs |-> make_interaction_term(s, bad, FALSE),
                  coeff |-> << >>] >>
    ELSE << >>

\* op_ids of build_coeffs_ops
OpIds(basis) ==
    CASE basis = "ground-rydberg" -> << "sigma_gr", "sigma_rr" >>
      [] basis = "digital" -> << "sigma_hg", "sigma_gg" >>
      [] OTHER -> << "sigma_du", "sigma_dd" >>

\* the two coefficient series of an entry, in units of 1/2: a value is
\* << modulus, phase >>; amp * exp(-i phase) and -det
Coeffs(entry) ==
    << [t \in DOMAIN entry.amp |->
            IF entry.amp[t] = 0 THEN << 0, 0 >>
            ELSE << entry.amp[t], entry.phase[t] >>],
       [t \in DOMAIN entry.det |-> << 0 - entry.det[t], 0 >>] >>

\* np.any(coeff != 0)
AnyNonZero(coeff) == \E t \in DOMAIN coeff : coeff[t][1] # 0

\* build_coeffs_ops(basis, "Global"): the terms added
GlobalTerms(s, smp) ==
    UNION { { [basis |-> basis, op_id |-> OpIds(basis)[k],
               coeff |-> adapt_to_sampling_rate(s, Coeffs(smp["Global"][basis])[k])] :
              k \in { k \in 1..2 : AnyNonZero(Coeffs(smp["Global"][basis])[k]) } } :
            basis \in { b \in BasesOf(s) : DOMAIN smp["Global"][b] # {} } }

\* build_coeffs_ops(basis, "Local"): the terms added
LocalTerms(s, smp) ==
    UNION { UNION { { [basis |-> basis, qid |-> q, op_id |-> OpIds(basis)[k],
                       coeff |-> adapt_to_sampling_rate(s,
                                    Coeffs(smp["Local"][basis][q])[k])] :
                      k \in { k \in 1..2 :
                                AnyNonZero(Coeffs(smp["Local"][basis][q])[k]) } } :
                    q \in DOMAIN smp["Local"][basis] } :
            basis \in { b \in BasesOf(s) : DOMAIN smp["Local"][b] # {} } }

\* qobj_list, as the interaction entries and the drive terms by addressing
\* (all empty: the zero operator 0 * build_operator([("I", "global")]))
QobjList(s, bn, bad, smp) ==
    [interaction |-> InteractionTerms(s, bn, bad),
     global |-> GlobalTerms(s, smp),
     local |-> LocalTerms(s, smp)]

\* the adjoint of an operator of op_matrix, by name (a product of two
\* stands for an interaction term between a pair of qubits)
DagOp(op) ==
    CASE op = "sigma_gr" -> "sigma_rg"
      [] op = "sigma_rg" -> "sigma_gr"
      [] op = "sigma_hg" -> "sigma_gh"
      [] op = "sigma_gh" -> "sigma_hg"
      [] op = "sigma_du" -> "sigma_ud"
      [] op = "sigma_ud" -> "sigma_du"
      [] op = "sigma_du*sigma_ud" -> "sigma_ud*sigma_du"
      [] op = "sigma_ud*sigma_du" -> "sigma_du*sigma_ud"
      [] OTHER -> op

\* qutip.QobjEvo(qobj_list, tlist=self.sampling_times): the terms
\* [op, at, coeff], coeff[i] = << modulus, phase >> being the coefficient at
\* sampling time i
QobjEvo(s, qobj_list) ==
    { [op |-> IF Interaction(s) = "XY" THEN "sigma_du*sigma_ud"
              ELSE "sigma_rr*sigma_rr",
       at |-> [pairs |-> qobj_list.interaction[k].pairs, k |-> k],
       coeff |-> [i \in 0..(GridPoints(s) - 1) |->
                    IF qobj_list.interaction[k].coeff = << >> THEN << 1, 0 >>
                    ELSE << qobj_list.interaction[k].coeff[i], 0 >>]] :
        k \in DOMAIN qobj_list.interaction }
    \cup { [op |-> x.op_id, at |-> [addr |-> "Global", basis |-> x.basis],
            coeff |-> x.coeff] : x \in qobj_list.global }
    \cup { [op |-> x.op_id, at |-> [addr |-> "Local", qid |-> x.qid],
            coeff |-> x.coeff] : x \in qobj_list.local }

\* the adjoint of a term: of its operator, with the conjugate coefficient
DagTerm(x) ==
    [op |-> DagOp(x.op), at |-> x.at,
     coeff |-> [i \in DOMAIN x.coeff |-> << x.coeff[i][1], 0 - x.coeff[i][2] >>]]

\* ham = qutip.QobjEvo(qobj_list, ...); ham = ham + ham.dag(): the terms of
\* qobj_list, and their adjoints in dag
ham_without_dag(s, qobj_list) ==
    [interaction |-> qobj_list.interaction, global |-> qobj_list.global,
     local |-> qobj_list.local, dag |-> {}]
ham_plus_dag(s, qobj_list) ==
    [interaction |-> qobj_list.interaction, global |-> qobj_list.global,
     local |-> qobj_list.local,
     dag |-> { DagTerm(x) : x \in QobjEvo(s, qobj_list) }]

IsZeroOperator(ham) ==
    /\ \A i \in DOMAIN ham.interaction : ham.interaction[i].pairs = {}
    /\ ham.global = {}
    /\ ham.local = {}

\* the keys of self.operators that build_coeffs_ops looks up: one per drive
\* term, operators[op_id] of a Global entry and operators[q_id][op_id] of a
\* Local one; qubits is the argument build_operator is given for it
OperatorKeys(s, smp) ==
    UNION { { [addr |-> "Global", basis |-> basis, op_id |-> OpIds(basis)[k],
               qubits |-> GlobalTarget] :
              k \in { k \in 1..2 : AnyNonZero(Coeffs(smp["Global"][basis])[k]) } } :
            basis \in { b \in BasesOf(s) : DOMAIN smp["Global"][b] # {} } }
    \cup
    UNION { UNION { { [addr |-> "Local", basis |-> basis,
                       op_id |-> OpIds(basis)[k], qubits |-> Ids(<< q >>)] :
                      k \in { k \in 1..2 :
                                AnyNonZero(Coeffs(smp["Local"][basis][q])[k]) } } :
                    q \in DOMAIN smp["Local"][basis] } :
            basis \in { b \in BasesOf(s) : DOMAIN smp["Local"][b] # {} } }

\* self.build_operator([(op_id, "global")]) and
\* self.build_operator([(op_id, [q_id])]): what is stored under a key
build_cached_operator_global(s, bn, key) ==
    build_operator(s, bn, << Pair(Named(key.op_id), GlobalTarget) >>)
build_cached_operator(s, bn, key) ==
    build_operator(s, bn, << Pair(Named(key.op_id), key.qubits) >>)

\* self.operators after the build_coeffs_ops calls of one construction:
\* an operator is built once, when its key is first needed, and kept. The
\* calls go by addressing, then by basis, then by qubit (here in register
\* order), then by op_id; a build that raises ends them.
build_coeffs_ops_cache(s, bn, old, smp) ==
    LET rank(key) ==
            (((IF key.addr = "Global" THEN 0 ELSE 1) * 2
              + (IF key.basis = "digital" THEN 1 ELSE 0)) * (Size(s) + 1)
             + (IF key.qubits.global THEN 0
                ELSE 1 + QidIndex(s, key.qubits.ids[1]))) * 2
            + (IF key.op_id = OpIds(key.basis)[1] THEN 0 ELSE 1)
        \* result: what build_operator gives for each key that is not held
        fill(result) ==
            LET failing == { key \in DOMAIN result : result[key].exc # "none" }
                built == { key \in DOMAIN result :
                             \A f \in failing : rank(key) < rank(f) }
            IN  [exc |-> IF failing = {} THEN "none"
                         ELSE result[CHOOSE f \in failing :
                                       \A g \in failing : rank(f) <= rank(g)].exc,
                 operators |-> [key \in DOMAIN old \cup built |->
                                  IF key \in DOMAIN old THEN old[key]
                                  ELSE result[key].op]]
    IN  fill([key \in OperatorKeys(s, smp) \ DOMAIN old |->
                build_cached_operator(s, bn, key)])

\* the part of the simulation that _construct_hamiltonian and set_config
\* read and write
SimState(c, bad, dop, smp, ham, cops, bn, ep, ops) ==
    [config |-> c, bad_atoms |-> bad, doppler_detune |-> dop, samples |-> smp,
     hamiltonian |-> ham, collapse_ops |-> cops, basis_name |-> bn,
     epochs |-> ep, operators |-> ops]

ZeroEpochs == [noise |-> 0, samples |-> 0, ham |-> 0]

\* _construct_hamiltonian(update_and_extract) with the random numbers d:
\* the new state and the exception raised, if any
construct_hamiltonian(s, st, update_and_extract, d) ==
    LET ep1 == IF update_and_extract
               THEN [st.epochs EXCEPT !.noise = @ + 1, !.samples = st.epochs.noise + 1]
               ELSE st.epochs
        \* the Hamiltonian; a build_operator that raises in build_coeffs_ops
        \* leaves the one there was
        built(nz, ex, bn, cache) ==
            [exc |-> cache.exc,
             st |-> [st EXCEPT !.bad_atoms = nz.bad, !.doppler_detune = nz.dop,
                               !.samples = ex.samples, !.basis_name = bn,
                               !.operators = cache.operators,
                               !.hamiltonian =
                                   IF cache.exc # "none" THEN @
                                   ELSE ham_plus_dag(s,
                                          QobjList(s, bn, nz.bad, ex.samples)),
                               !.epochs = IF cache.exc # "none" THEN ep1
                                          ELSE [ep1 EXCEPT !.ham = ep1.samples]]]
        based(nz, ex, bn) ==
            built(nz, ex, bn,
                  build_coeffs_ops_cache(s, bn, st.operators, ex.samples))
        \* if not hasattr(self, "basis_name"): build the basis
        extracted(nz, ex) ==
            IF ex.exc # "none"
            THEN [exc |-> ex.exc,
                  st |-> [st EXCEPT !.bad_atoms = nz.bad,
                                    !.doppler_detune = nz.dop,
                                    !.samples = ex.samples, !.epochs = ep1]]
            ELSE based(nz, ex,
                       IF st.basis_name = "unset"
                       THEN build_basis_name(s, ex.samples)
                       ELSE st.basis_name)
        \* if update_and_extract: self._extract_samples()
        updated(nz) ==
            extracted(nz,
                      IF update_and_extract
                      THEN extract_samples(s, st.config, nz.bad, nz.dop, d)
                      ELSE [exc |-> "none", samples |-> st.samples])
    \* if update_and_extract: self._update_noise()
    IN  updated(IF update_and_extract
                THEN update_noise(s, st.config, st.bad_atoms, st.doppler_detune, d)
                ELSE [bad |-> st.bad_atoms, dop |-> st.doppler_detune])

-----------------------------------------------------------------------------
(* set_config, add_config, reset_config *)

\* the attributes a simulation has before its first set_config
Unset == [isSimConfig |-> FALSE]

\* the collapse operators of the dephasing channel: the scaled identity,
\* then one operator per qubit (target is the qubit's position, from 1)
CollapseOps(s, c) ==
    [i \in 1..(Size(s) + 1) |-> [target |-> i - 1, prob |-> c.dephasing_prob]]

\* prev_config = self.config if hasattr(self, "_config") else SimConfig()
prev_config_default(st) == DefaultSimConfig
prev_config(st) == IF st.config.isSimConfig THEN st.config ELSE DefaultSimConfig

\* the preparation errors set_config starts from: none unless cfg has SPAM
\* with eta > 0
bad_atoms_kept(s, cfg, bad) == bad
bad_atoms_for(s, cfg, bad) ==
    IF ~SpamOn(cfg) THEN [q \in QubitIds(s) |-> FALSE] ELSE bad

\* set_config(cfg); ds are the random numbers of the Hamiltonian
\* constructions it makes, in order. The result is the new state and the
\* exception raised, if any.
RECURSIVE set_config(_, _, _, _)
set_config(s, st, cfg, ds) ==
    IF ~cfg.isSimConfig
    THEN [exc |-> "ValueError: not a SimConfig", st |-> st]
    ELSE IF cfg.noise \ SUPPORTED_NOISE(Interaction(s)) # {}
    THEN [exc |-> "NotImplementedError: noise not supported", st |-> st]
    ELSE
    LET prev == prev_config(st)
        st1 == [st EXCEPT
                  !.config = cfg,
                  !.bad_atoms = bad_atoms_for(s, cfg, @),
                  !.doppler_detune = IF "doppler" \notin cfg.noise
                                     THEN [q \in QubitIds(s) |-> 0] ELSE @]
        \* go back to the previous config, then report
        rolled(back) ==
            IF back.exc # "none" THEN back
            ELSE [exc |-> "NotImplementedError: dephasing in digital or all basis",
                  st |-> back.st]
        constructed(built) ==
            IF built.exc # "none" THEN built
            ELSE IF "dephasing" \in cfg.noise
            THEN IF built.st.basis_name \in {"digital", "all"}
                 THEN rolled(set_config(s, built.st, prev, Tail(ds)))
                 ELSE [exc |-> "none",
                       st |-> [built.st EXCEPT
                                 !.collapse_ops = CollapseOps(s, cfg)]]
            ELSE built
    IN  constructed(construct_hamiltonian(s, st1, TRUE, Head(ds)))

\* add_config(config): the SimConfig(**param_dict) it hands to set_config
merged_config(former_config, cfg) ==
    LET old_noise_set == former_config.noise
        new_noise_set == old_noise_set \cup cfg.noise
        diff_noise_set == new_noise_set \ old_noise_set
        former == asdict(former_config)
        temperature == IF "doppler" \in diff_noise_set THEN cfg.temperature
                       ELSE former.temperature
        param_dict ==
            [former EXCEPT
               !.noise = new_noise_set,
               !.eta = IF "SPAM" \in diff_noise_set THEN cfg.eta ELSE @,
               !.epsilon = IF "SPAM" \in diff_noise_set THEN cfg.epsilon ELSE @,
               !.epsilon_prime = IF "SPAM" \in diff_noise_set
                                 THEN cfg.epsilon_prime ELSE @,
               !.laser_waist = IF "amplitude" \in diff_noise_set
                               THEN cfg.laser_waist ELSE @,
               !.dephasing_prob = IF "dephasing" \in diff_noise_set
                                  THEN cfg.dephasing_prob ELSE @,
               \* param_dict["temperature"] *= 1.0e6
               !.temperature = FMul(temperature,
                                    Float(<< 0, 0, 2048, 1953 >>, -33))]
    IN  SimConfig(param_dict)

\* add_config(config)
add_config(s, st, cfg, ds) ==
    IF ~cfg.isSimConfig
    THEN [exc |-> "ValueError: not a SimConfig", st |-> st]
    ELSE IF cfg.noise \ SUPPORTED_NOISE(Interaction(s)) # {}
    THEN [exc |-> "NotImplementedError: noise not supported", st |-> st]
    ELSE set_config(s, st, merged_config(st.config, cfg), ds)

\* reset_config()
reset_config(s, st, ds) == set_config(s, st, DefaultSimConfig, ds)

-----------------------------------------------------------------------------
(* initial_state and evaluation_times *)

\* a state (or density operator) of the register: here a product of levels,
\* with its per-qubit dimension
State(dim, levels) == [dim |-> dim, levels |-> levels]

\* qutip.tensor([self.basis[label] for _ in range(self._size)])
TensorOf(s, bn, label) == State(Dim(bn), [i \in 1..Size(s) |-> Basis(bn)[label]])

\* what the initial_state setter is given: the string "all-ground", or an
\* array or Qobj (here a product state)
AllGroundLabel == [label |-> "all-ground", dim |-> 0, levels |-> << >>]
ExplicitState(dim, levels) == [label |-> "", dim |-> dim, levels |-> levels]

RECURSIVE Pow(_, _)
Pow(b, n) == IF n = 0 THEN 1 ELSE b * Pow(b, n - 1)

\* the initial_state setter: the new state, and the exception raised, if any
set_initial_state(s, bn, old, state) ==
    IF state.label = "all-ground"
    THEN [exc |-> "none",
          state |-> TensorOf(s, bn, IF Interaction(s) = "XY" THEN "d" ELSE "g")]
    ELSE IF Pow(state.dim, Len(state.levels)) # Pow(Dim(bn), Size(s))
    THEN [exc |-> "ValueError: incompatible shape", state |-> old]
    ELSE [exc |-> "none", state |-> State(state.dim, state.levels)]

\* evaluation_times = "Full": the sampling times, then the total duration (ns)
EvalTimesFull(s) ==
    [i \in 1..(GridPoints(s) + 1) |->
        IF i <= GridPoints(s) THEN GridIndex(s, i - 1) ELSE s.duration]

\* the values the evaluation_times setter is given: a label, a float
\* num/den, a list of times (ns), or an object of another type
Label(name) == [kind |-> "str", name |-> name]
Fraction(num, den) == [kind |-> "float", num |-> num, den |-> den]
TimeList(times) == [kind |-> "list", times |-> times]
OtherValue == [kind |-> "other"]

\* np.linspace(0, stop, num, dtype=int), positions counted from 0
LinspaceInt(stop, num) ==
    [i \in 0..(num - 1) |-> IF num = 1 THEN 0 ELSE (i * stop) \div (num - 1)]

\* np.sort(value)
RECURSIVE Sorted(_)
Sorted(times) ==
    IF times = << >> THEN << >>
    ELSE LET least == CHOOSE i \in DOMAIN times :
                         \A j \in DOMAIN times : times[i] <= times[j]
         IN  << times[least] >>
             \o Sorted(SubSeq(times, 1, least - 1)
                       \o SubSeq(times, least + 1, Len(times)))

\* the evaluation_times setter: the exception raised, if any, and
\* self._eval_times_array (old when the setter raises)
set_evaluation_times(s, old, value) ==
    LET wrong_label == "ValueError: Wrong evaluation time label"
        extended_times == EvalTimesFull(s)
    IN
    IF value.kind = "str"
    THEN IF value.name = "Full"
         THEN [exc |-> "none", times |-> extended_times]
         ELSE IF value.name = "Minimal"
         THEN [exc |-> "none", times |-> << SamplingTimes(s)[0], s.duration >>]
         ELSE [exc |-> wrong_label, times |-> old]
    ELSE IF value.kind = "float"
    THEN IF value.num > value.den \/ value.num <= 0
         THEN [exc |-> "ValueError: evaluation_times float must be between 0 and 1",
               times |-> old]
         ELSE LET num == (value.num * Len(extended_times)) \div value.den
                  indices == LinspaceInt(Len(extended_times) - 1, num)
              IN  [exc |-> "none",
                   times |-> [i \in 1..num |-> extended_times[indices[i - 1] + 1]]]
    ELSE IF value.kind = "list"
    THEN IF value.times = << >>
         THEN [exc |-> "ValueError: zero-size array", times |-> old]
         ELSE LET sorted == Sorted(value.times)
                  t_min == sorted[1]
                  t_max == sorted[Len(sorted)]
              IN  IF t_max > s.duration
                  THEN [exc |-> "ValueError: list extends further than sequence duration",
                        times |-> old]
                  ELSE IF t_min < 0
                  THEN [exc |-> "ValueError: list contains negative values",
                        times |-> old]
                  ELSE [exc |-> "none",
                        times |-> (IF t_min > 0 THEN << 0 >> ELSE << >>)
                                  \o sorted
                                  \o (IF t_max < s.duration THEN << s.duration >>
                                      ELSE << >>)]
    ELSE [exc |-> wrong_label, times |-> old]

-----------------------------------------------------------------------------
(* run *)

\* the guard on state preparation errors (only evaluated with "SPAM" in the
\* noise): the exception it raises, if any
RunGuard(s, c, bn, init) ==
    IF "SPAM" \in c.noise /\ c.eta > 0
    THEN IF "g" \notin DOMAIN Basis(bn) THEN "KeyError: 'g'"
         ELSE IF init # TensorOf(s, bn, "g")
              THEN "NotImplementedError: preparation errors with non-ground state"
              ELSE "none"
    ELSE "none"

\* which of the three branches run takes
RunCase_ignoring_eta(c) ==
    IF c.noise \subseteq {"dephasing", "SPAM"}
    THEN IF "SPAM" \notin c.noise THEN "A" ELSE "B"
    ELSE "C"
RunCase_by_eta_only(c) ==
    IF c.noise \subseteq {"dephasing", "SPAM"}
    THEN IF c.eta = 0 THEN "A" ELSE "B"
    ELSE "C"
RunCase(c) ==
    IF c.noise \subseteq {"dephasing", "SPAM"}
    THEN IF "SPAM" \notin c.noise \/ c.eta = 0 THEN "A" ELSE "B"
    ELSE "C"

\* the bitstrings np.random.uniform(size) < eta can give
Bitstrings(s, c) ==
    { [q \in QubitIds(s) |-> u[q] < c.eta] : u \in UniformPatterns(s) }

\* Counter(draws): the distinct draws in order of first occurrence, and counts
CountOf_once(draws, b) == 1
CountOf(draws, b) == Cardinality({ i \in DOMAIN draws : draws[i] = b })
FirstAt(draws, b) == CHOOSE i \in DOMAIN draws :
                        draws[i] = b /\ \A j \in 1..(i - 1) : draws[j] # b

\* Counter(draws).most_common(): by decreasing count, ties in order of first
\* occurrence
RECURSIVE MostCommonFrom(_, _)
MostCommonFrom(draws, left) ==
    IF left = {} THEN << >>
    ELSE LET b == CHOOSE b \in left :
                    \A o \in left \ {b} :
                        \/ CountOf(draws, b) > CountOf(draws, o)
                        \/ /\ CountOf(draws, b) = CountOf(draws, o)
                           /\ FirstAt(draws, b) < FirstAt(draws, o)
         IN  << [bits |-> b, reps |-> CountOf(draws, b)] >>
             \o MostCommonFrom(draws, left \ {b})
most_common(draws) == MostCommonFrom(draws, Range(draws))

\* the measurement outcomes the histograms are over
Outcomes == {"00", "11"}

\* CoherentResults.sample_state(t, n_samples): a Counter of n_samples outcomes
sample_state(t_index, n_samples) ==
    [o \in Outcomes |->
        IF t_index % 2 = 1 THEN (IF o = "00" THEN n_samples ELSE 0)
        ELSE (IF o = "00" THEN n_samples \div 2 ELSE n_samples - n_samples \div 2)]

\* _run_solver(): what the propagator is called with
run_solver(c, st, init, evals) ==
    [solver |-> IF "dephasing" \in c.noise THEN "mesolve" ELSE "sesolve",
     collapse_ops |-> IF "dephasing" \in c.noise THEN st.collapse_ops ELSE << >>,
     initial_state |-> init,
     n_times |-> Len(evals),
     bad_atoms |-> st.bad_atoms,
     epochs |-> st.epochs]

\* n_measures = self.config.runs * self.config.samples_per_run
n_measures_runs_only(c) == c.runs
n_measures(c) == c.runs * c.samples_per_run

\* the update_and_extract argument run's loop gives _construct_hamiltonian
update_and_extract_never(r) == FALSE
update_and_extract_arg(r) == r.update_ham

\* run's local variables
NoRun ==
    [loop_runs |-> 0, update_ham |-> FALSE, draws |-> << >>,
     initial_configs |-> << >>, i |-> 0, reps |-> << >>, total_count |-> << >>,
     solves |-> << >>]

\* what a call that is not a completed run leaves in outcome
NoArg == [isSimConfig |-> FALSE]
Outcome(call, exc) ==
    [call |-> call, arg |-> NoArg, exc |-> exc, kind |-> "none", run |-> NoRun,
     n_measures |-> 0, total_run_prob |-> << >>]

-----------------------------------------------------------------------------
(* The inputs the operations are called with *)

\* every noise set, with eta 0 or 1/2 when it holds SPAM, and eta 1 for SPAM
\* alone
NoiseAndEta ==
    { x \in (SUBSET {"dephasing", "doppler", "amplitude", "SPAM"}) \X {0, 1, 2} :
        \/ "SPAM" \notin x[1] /\ x[2] = 1
        \/ "SPAM" \in x[1] /\ x[2] < 2
        \/ x[1] = {"SPAM"} }

\* the configurations a simulation is constructed with, in the specification
\* of run
AllConfigs ==
    { SimConfig(ConfigArgs(x[1], x[2], 1, r, MaxSamples)) :
        x \in NoiseAndEta, r \in {1, MaxRuns} }

\* what set_config is called with
SetConfigInputs ==
    { SimConfig(ConfigArgs(x[1], x[2], x[3], x[4], x[5])) :
        x \in { << {}, 1, 1, MaxRuns, MaxSamples >>,
                << {"dephasing"}, 1, 2, 1, MaxSamples >>,
                << {"SPAM"}, 0, 2, 1, MaxSamples >>,
                << {"SPAM"}, 1, 2, MaxRuns, MaxSamples >>,
                << {"SPAM"}, 2, 2, 1, 1 >>,
                << {"doppler"}, 1, 1, MaxRuns, MaxSamples >>,
                << {"amplitude"}, 1, 2, 1, MaxSamples >>,
                << {"doppler", "SPAM"}, 1, 2, 1, MaxSamples >> } }
    \cup { NotASimConfig }

\* what add_config is called with
AddConfigInputs ==
    { SimConfig(ConfigArgs(x[1], x[2], 3, 1, 1)) :
        x \in { << {"SPAM"}, 1 >>, << {"doppler", "dephasing"}, 1 >> } }
    \cup { NotASimConfig }

InitialStateInputs(s) ==
    { AllGroundLabel,
      ExplicitState(2, [i \in 1..Size(s) |-> 0]),
      ExplicitState(2, [i \in 1..Size(s) |-> 1]),
      ExplicitState(3, [i \in 1..Size(s) |-> 1]) }

\* the random numbers of the (at most two) Hamiltonian constructions of
\* set_config(cfg): the second happens only on the dephasing rollback
NoDraw == [u |-> << >>, g |-> << >>, a |-> << >>]
Valid(s, cfg) ==
    cfg.isSimConfig /\ cfg.noise \subseteq SUPPORTED_NOISE(Interaction(s))
RollsBack(s, bn, cfg) ==
    Valid(s, cfg) /\ "dephasing" \in cfg.noise /\ bn \in {"digital", "all"}
DrawsFor(s, bn, prev, cfg) ==
    IF ~Valid(s, cfg) THEN { << NoDraw, NoDraw >> }
    ELSE IF RollsBack(s, bn, cfg)
    THEN { << d1, d2 >> : d1 \in NoiseDraws(s, cfg), d2 \in NoiseDraws(s, prev) }
    ELSE { << d1, NoDraw >> : d1 \in NoiseDraws(s, cfg) }

-----------------------------------------------------------------------------
(* The state machine *)

Current ==
    SimState(config, bad_atoms, doppler_detune, samples, hamiltonian,
             collapse_ops, basis_name, epochs, operators)

\* the simulation state after a call that returned or raised: the epochs
\* count the noise draws of a run only
Install(st) ==
    /\ config' = st.config
    /\ bad_atoms' = st.bad_atoms
    /\ doppler_detune' = st.doppler_detune
    /\ samples' = st.samples
    /\ hamiltonian' = st.hamiltonian
    /\ collapse_ops' = st.collapse_ops
    /\ basis_name' = st.basis_name
    /\ operators' = st.operators

\* no call of build_operator was made
NoOperator == [operations |-> << >>, exc |-> "none", op |-> << >>]

\* Simulation(sequence, config=cfg): the object after __init__
Constructed(s, cfg, d) ==
    set_config(s, SimState(Unset, [q \in QubitIds(s) |-> FALSE],
                           [q \in QubitIds(s) |-> 0], << >>, << >>, << >>,
                           "unset", ZeroEpochs, << >>),
               cfg, << d, d >>)

\* the simulation constructed on sequence s with configuration cfg
InitWith(s, cfg) ==
    \E d \in NoiseDraws(s, cfg) :
      \E r \in { Constructed(s, cfg, d) } :
        /\ r.exc = "none"
        /\ seq = s
        /\ config = r.st.config
        /\ bad_atoms = r.st.bad_atoms
        /\ doppler_detune = r.st.doppler_detune
        /\ samples = r.st.samples
        /\ hamiltonian = r.st.hamiltonian
        /\ collapse_ops = r.st.collapse_ops
        /\ basis_name = r.st.basis_name
        /\ operators = r.st.operators
        /\ initial_state = set_initial_state(s, r.st.basis_name, Unset,
                                             AllGroundLabel).state
        /\ epochs = ZeroEpochs
        /\ pc = "idle"
        /\ rs = NoRun
        /\ outcome = Outcome("__init__", "none")
        /\ op_result = NoOperator
        /\ sampling_times = SamplingTimes(s)
        /\ eval_times = EvalTimesFull(s)

Init == \E s \in Sequences : InitWith(s, DefaultSimConfig)

\* the checks of the sampling rate that __init__ makes: the exception raised
sampling_rate_check(s) ==
    IF ~(0 < s.rate.num /\ s.rate.num <= s.rate.den)
    THEN "ValueError: sampling_rate must be greater than 0 and less than or equal to 1"
    ELSE IF GridPoints(s) < 4
    THEN "ValueError: sampling_rate is too small, less than 4 data points"
    ELSE "none"

\* Simulation(sequence, sampling_rate, config, evaluation_times) as a whole,
\* also when __init__ raises: there is then no object (pc = "failed") and
\* the variables hold what had been assigned when it raised
New(s, cfg, value) ==
    LET never == /\ seq = s
                 /\ initial_state = Unset
                 /\ epochs = ZeroEpochs
                 /\ pc = "failed"
                 /\ rs = NoRun
                 /\ op_result = NoOperator
        nothing == /\ config = Unset
                   /\ bad_atoms = << >>
                   /\ doppler_detune = << >>
                   /\ samples = << >>
                   /\ hamiltonian = << >>
                   /\ collapse_ops = << >>
                   /\ basis_name = "unset"
                   /\ operators = << >>
    IN
    IF sampling_rate_check(s) # "none"
    THEN /\ never /\ nothing
         /\ sampling_times = << >>
         /\ eval_times = << >>
         /\ outcome = Outcome("__init__", sampling_rate_check(s))
    ELSE
    \E ev \in { set_evaluation_times(s, << >>, value) } :
      IF ev.exc # "none"
      THEN /\ never /\ nothing
           /\ sampling_times = SamplingTimes(s)
           /\ eval_times = << >>
           /\ outcome = Outcome("__init__", ev.exc)
      ELSE
      \E d \in NoiseDraws(s, cfg) :
        \E r \in { Constructed(s, cfg, d) } :
          /\ sampling_times = SamplingTimes(s)
          /\ eval_times = ev.times
          /\ config = r.st.config
          /\ bad_atoms = r.st.bad_atoms
          /\ doppler_detune = r.st.doppler_detune
          /\ samples = r.st.samples
          /\ hamiltonian = r.st.hamiltonian
          /\ collapse_ops = r.st.collapse_ops
          /\ basis_name = r.st.basis_name
          /\ operators = r.st.operators
          /\ outcome = Outcome("__init__", r.exc)
          /\ IF r.exc # "none" THEN never
             ELSE /\ seq = s
                  /\ initial_state = set_initial_state(s, r.st.basis_name, Unset,
                                                       AllGroundLabel).state
                  /\ epochs = ZeroEpochs
                  /\ pc = "idle"
                  /\ rs = NoRun
                  /\ op_result = NoOperator

\* the evaluation_times setter
SetEvaluationTimes(value) ==
    /\ pc = "idle"
    /\ \E r \in { set_evaluation_times(seq, eval_times, value) } :
         /\ eval_times' = r.times
         /\ outcome' = [Outcome("evaluation_times", r.exc) EXCEPT !.arg = value]
    /\ UNCHANGED << seq, config, bad_atoms, doppler_detune, samples,
                    hamiltonian, collapse_ops, basis_name, initial_state,
                    epochs, pc, rs, op_result, sampling_times, operators >>

SetConfig(cfg) ==
    /\ pc = "idle"
    /\ \E ds \in DrawsFor(seq, basis_name, config, cfg) :
         \E r \in { set_config(seq, Current, cfg, ds) } :
         /\ Install(r.st)
         /\ outcome' = Outcome("set_config", r.exc)
    /\ UNCHANGED << seq, initial_state, epochs, pc, rs, op_result,
                    sampling_times, eval_times >>

AddConfig(cfg) ==
    /\ pc = "idle"
    /\ \E ds \in DrawsFor(seq, basis_name, config,
                          IF Valid(seq, cfg) THEN merged_config(config, cfg)
                          ELSE cfg) :
         \E r \in { add_config(seq, Current, cfg, ds) } :
         /\ Install(r.st)
         /\ outcome' = [Outcome("add_config", r.exc) EXCEPT !.arg = cfg]
    /\ UNCHANGED << seq, initial_state, epochs, pc, rs, op_result,
                    sampling_times, eval_times >>

ResetConfig ==
    /\ pc = "idle"
    /\ \E ds \in DrawsFor(seq, basis_name, config, DefaultSimConfig) :
         \E r \in { reset_config(seq, Current, ds) } :
         /\ Install(r.st)
         /\ outcome' = Outcome("reset_config", r.exc)
    /\ UNCHANGED << seq, initial_state, epochs, pc, rs, op_result,
                    sampling_times, eval_times >>

SetInitialState(state) ==
    /\ pc = "idle"
    /\ LET r == set_initial_state(seq, basis_name, initial_state, state) IN
         /\ initial_state' = r.state
         /\ outcome' = Outcome("initial_state", r.exc)
    /\ UNCHANGED << seq, config, bad_atoms, doppler_detune, samples,
                    hamiltonian, collapse_ops, basis_name, epochs, pc, rs,
                    op_result,
                    sampling_times, eval_times, operators >>

\* run(), up to the choice of its branch, when the guard raises
RunRejected ==
    /\ pc = "idle"
    /\ RunGuard(seq, config, basis_name, initial_state) # "none"
    /\ outcome' = Outcome("run", RunGuard(seq, config, basis_name, initial_state))
    /\ UNCHANGED << seq, config, bad_atoms, doppler_detune, samples,
                    hamiltonian, collapse_ops, basis_name, initial_state,
                    epochs, pc, rs, op_result,
                    sampling_times, eval_times, operators >>

\* run() in Case A: one call of the propagator, whose result is returned
RunCoherent ==
    /\ pc = "idle"
    /\ RunGuard(seq, config, basis_name, initial_state) = "none"
    /\ RunCase(config) = "A"
    /\ outcome' =
         [call |-> "run", arg |-> NoArg, exc |-> "none",
          kind |-> "CoherentResults",
          run |-> [NoRun EXCEPT
                     !.solves = << run_solver(config, Current, initial_state,
                                              eval_times) >>],
          n_measures |-> 0, total_run_prob |-> << >>]
    /\ UNCHANGED << seq, config, bad_atoms, doppler_detune, samples,
                    hamiltonian, collapse_ops, basis_name, initial_state,
                    epochs, pc, rs, op_result,
                    sampling_times, eval_times, operators >>

\* run() in Cases B and C, up to the loop
RunStartLoop ==
    /\ pc = "idle"
    /\ RunGuard(seq, config, basis_name, initial_state) = "none"
    /\ RunCase(config) # "A"
    /\ \E draws \in IF RunCase(config) = "B"
                    THEN [1..config.runs -> Bitstrings(seq, config)]
                    ELSE { << >> } :
         rs' = [NoRun EXCEPT
                  !.draws = draws,
                  !.initial_configs = most_common(draws),
                  !.loop_runs = IF RunCase(config) = "B"
                                THEN Len(most_common(draws)) ELSE config.runs,
                  !.update_ham = (RunCase(config) # "B"),
                  !.total_count = [t \in DOMAIN eval_times |->
                                      [o \in Outcomes |-> 0]]]
    /\ pc' = "loop"
    /\ epochs' = ZeroEpochs
    /\ outcome' = Outcome("run", "running")
    /\ UNCHANGED << seq, config, bad_atoms, doppler_detune, samples,
                    hamiltonian, collapse_ops, basis_name, initial_state,
                    op_result,
                    sampling_times, eval_times, operators >>

\* one iteration of run's loop
RunIterate ==
    /\ pc = "loop"
    /\ rs.i < rs.loop_runs
    /\ \E d \in IF rs.update_ham THEN NoiseDraws(seq, config) ELSE { NoDraw } :
         LET reps == IF ~rs.update_ham THEN rs.initial_configs[rs.i + 1].reps
                     ELSE 1
             \* the initial configuration is loaded by hand
             loaded == IF ~rs.update_ham
                       THEN [Current EXCEPT
                               !.bad_atoms = rs.initial_configs[rs.i + 1].bits]
                       ELSE Current
             built == construct_hamiltonian(seq, loaded,
                                           update_and_extract_arg(rs), d)
             cleanres_noisyseq == run_solver(config, built.st, initial_state,
                                             eval_times)
         IN  /\ Install(built.st)
             /\ epochs' = built.st.epochs
             /\ IF built.exc # "none"
                THEN /\ pc' = "idle"
                     /\ rs' = NoRun
                     /\ outcome' = Outcome("run", built.exc)
                ELSE /\ pc' = "loop"
                     /\ rs' = [rs EXCEPT
                                 !.i = @ + 1,
                                 !.reps = Append(@, reps),
                                 !.solves = Append(@, cleanres_noisyseq),
                                 !.total_count =
                                    [t \in DOMAIN @ |->
                                       [o \in Outcomes |->
                                          @[t][o] + sample_state(t,
                                             config.samples_per_run * reps)[o]]]]
                     /\ outcome' = outcome
    /\ UNCHANGED << seq, initial_state, op_result,
                    sampling_times, eval_times >>

\* the end of run in Cases B and C: the NoisyResults returned
RunReturn ==
    /\ pc = "loop"
    /\ rs.i = rs.loop_runs
    /\ outcome' =
           [call |-> "run", arg |-> NoArg, exc |-> "none",
            kind |-> "NoisyResults", run |-> rs,
            n_measures |-> n_measures(config),
            total_run_prob |->
               [t \in DOMAIN rs.total_count |->
                  [o \in Outcomes |->
                     [num |-> rs.total_count[t][o],
                      den |-> n_measures(config)]]]]
    /\ pc' = "idle"
    /\ rs' = NoRun
    /\ epochs' = ZeroEpochs
    /\ UNCHANGED << seq, config, bad_atoms, doppler_detune, samples,
                    hamiltonian, collapse_ops, basis_name, initial_state,
                    op_result,
                    sampling_times, eval_times, operators >>

Next ==
    \/ \E cfg \in SetConfigInputs : SetConfig(cfg)
    \/ \E cfg \in AddConfigInputs : AddConfig(cfg)
    \/ ResetConfig
    \/ RunRejected
    \/ RunCoherent
    \/ RunStartLoop
    \/ RunIterate
    \/ RunReturn

Spec == Init /\ [][Next]_vars

\* run (and the initial state it starts from) on a simulation constructed with
\* any configuration
InitRun == \E s \in Sequences : \E cfg \in AllConfigs : InitWith(s, cfg)

NextRun ==
    \/ \E state \in InitialStateInputs(seq) : SetInitialState(state)
    \/ RunRejected
    \/ RunCoherent
    \/ RunStartLoop
    \/ RunIterate
    \/ RunReturn

SpecRun == InitRun /\ [][NextRun]_vars

\* build_operator(operations), called by the user
BuildOperator(operations) ==
    /\ pc = "idle"
    /\ \E r \in { build_operator(seq, basis_name, operations) } :
         /\ op_result' = [operations |-> operations, exc |-> r.exc, op |-> r.op]
         /\ outcome' = Outcome("build_operator", r.exc)
    /\ UNCHANGED << seq, config, bad_atoms, doppler_detune, samples,
                    hamiltonian, collapse_ops, basis_name, initial_state,
                    epochs, pc, rs, sampling_times, eval_times, operators >>

\* the operators, qubit identifiers and target lists build_operator is
\* called with: identifier 0 and 1 as integers and as strings
OperationsInputs ==
    LET OperatorInputs == { Named("sigma_gg"), Named("bogus"), Explicit(Qobj(1)) }
        IdInputs == { IntId(0), IntId(1), StrId(0), StrId(1) }
        TargetInputs ==
            { GlobalTarget }
            \cup { Ids(<< a >>) : a \in IdInputs }
            \cup { Ids(<< a, b >>) : a \in {IntId(0), IntId(1)},
                                     b \in {IntId(0), IntId(1)} }
            \cup { Ids(<< a, b >>) : a \in {StrId(0), StrId(1)},
                                     b \in {StrId(0), StrId(1)} }
        PairInputs == { Pair(o, q) : o \in OperatorInputs, q \in TargetInputs }
        FirstPairInputs ==
            { Pair(Named("sigma_gg"), GlobalTarget),
              Pair(Explicit(Qobj(1)), Ids(<< IntId(0) >>)),
              Pair(Explicit(Qobj(1)), Ids(<< StrId(0) >>)) }
    IN  { << p >> : p \in PairInputs }
        \cup { << p, q >> : p \in FirstPairInputs, q \in PairInputs }
        \cup { << p, Pair(Named("sigma_gg"), GlobalTarget) >> : p \in PairInputs }

\* build_operator on a simulation of each register (labels 0, 1; "q0", "q1";
\* 1, 0) and of each basis
InitOp ==
    \E s \in { SeqRydbergGlobal(reg) : reg \in Registers }
              \cup { SeqXY(StrRegister), SeqAllBasis(IntRegister) } :
      InitWith(s, DefaultSimConfig)

NextOp == \E operations \in OperationsInputs : BuildOperator(operations)

SpecOp == InitOp /\ [][NextOp]_vars

\* labels "q0", "q1", "q2"
StrRegister3 == << StrId(0), StrId(1), StrId(2) >>

\* a Global ground-rydberg pulse under the SLM mask of the second qubit,
\* then a Local digital pulse on the first qubit
SeqSLMLocal(reg) ==
    MkSequence("rydberg_global+slm+raman_local", FALSE, reg,
        << Channel("Global", "ground-rydberg",
               << PulseSlot(0, MaskEnd, Range(reg), 1, 0, 0),
                  DelaySlot(MaskEnd, Duration, Range(reg)) >>),
           Channel("Local", "digital",
               << DelaySlot(0, MaskEnd, {reg[1]}),
                  PulseSlot(MaskEnd, Duration, {reg[1]}, 1, 1, 1) >>) >>,
        {reg[2]}, << 0, MaskEnd >>)
\* a Global ground-rydberg pulse under the SLM mask of the second qubit,
\* then a Global digital pulse
SeqSLMTwoGlobal(reg) ==
    MkSequence("rydberg_global+slm+raman_global", FALSE, reg,
        << Channel("Global", "ground-rydberg",
               << PulseSlot(0, MaskEnd, Range(reg), 1, 0, 0),
                  DelaySlot(MaskEnd, Duration, Range(reg)) >>),
           Channel("Global", "digital",
               << DelaySlot(0, MaskEnd, Range(reg)),
                  PulseSlot(MaskEnd, Duration, Range(reg), 1, 1, 1) >>) >>,
        {reg[2]}, << 0, MaskEnd >>)
\* XY mode: two Global microwave pulses, the SLM mask of the second qubit
\* during the first one
SeqSLMXY(reg) ==
    MkSequence("mw_global+slm", TRUE, reg,
        << Channel("Global", "XY",
               << PulseSlot(0, MaskEnd, Range(reg), 1, 1, 0),
                  PulseSlot(MaskEnd, Duration, Range(reg), 1, 0, 1) >>) >>,
        {reg[2]}, << 0, MaskEnd >>)
\* two Global digital pulses, the SLM mask of the second qubit during the
\* first one
SeqSLMDigital(reg) ==
    MkSequence("raman_global+slm", FALSE, reg,
        << Channel("Global", "digital",
               << PulseSlot(0, MaskEnd, Range(reg), 1, 0, 0),
                  PulseSlot(MaskEnd, Duration, Range(reg), 1, 1, 1) >>) >>,
        {reg[2]}, << 0, MaskEnd >>)
\* SeqSLM at twice the length, sampled at rate 1/2
SeqSLMSampled(reg) ==
    [MkSequence("rydberg_global+slm/sampled", FALSE, reg,
        << Channel("Global", "ground-rydberg",
               << PulseSlot(0, Duration, Range(reg), 1, 0, 0),
                  PulseSlot(Duration, 2 * Duration, Range(reg), 1, 1, 1) >>) >>,
        {reg[2]}, << 0, Duration >>)
     EXCEPT !.duration = 2 * Duration, !.rate = [num |-> 1, den |-> 2]]

\* the sequences with an SLM mask
MaskedSequences ==
    { SeqSLM(StrRegister), SeqSLM(StrRegister3), SeqSLMLocal(StrRegister),
      SeqSLMTwoGlobal(StrRegister), SeqSLMXY(StrRegister3),
      SeqSLMDigital(StrRegister), SeqSLMSampled(StrRegister) }

\* a simulation of a sequence with an SLM mask, constructed with every
\* noise set the interaction mode supports
InitSLM ==
    \E s \in MaskedSequences :
      \E cfg \in { SimConfig(ConfigArgs(x[1], x[2], 1, 1, 1)) : x \in NoiseAndEta } :
        Valid(s, cfg) /\ New(s, cfg, Label("Full"))

NextSLM ==
    \/ \E cfg \in SetConfigInputs : SetConfig(cfg)
    \/ ResetConfig

SpecSLM == InitSLM /\ [][NextSLM]_vars

\* the sequences of one Global pulse, of each duration d (ns) and to be
\* sampled at each rate (in quarters, from -1/4 to 5/4), a simulation is
\* constructed with
SampledSequences ==
    { [MkSequence("rydberg_global/sampled", FALSE, StrRegister,
          << Channel("Global", "ground-rydberg",
                 << PulseSlot(0, d, Range(StrRegister), 1, 0, 0) >>) >>,
          {}, << >>)
       EXCEPT !.duration = d, !.rate = [num |-> k, den |-> 4]] :
        d \in 1..MaxDuration, k \in (-1)..5 }

\* what the evaluation_times setter is given on sequence s: the labels, a
\* float from 0 to 5/4, a list of at most two times, an integer
EvaluationTimesInputs(s) ==
    LET TimeInputs == { -1, 0, 1, s.duration, s.duration + 1 }
    IN  { Label("Full"), Label("Minimal"), Label("bogus"), OtherValue }
        \cup { Fraction(k, 4) : k \in 0..5 }
        \cup { TimeList(<< >>) }
        \cup { TimeList(<< a >>) : a \in TimeInputs }
        \cup { TimeList(<< a, b >>) : a, b \in TimeInputs }

InitGrid == \E s \in SampledSequences : New(s, DefaultSimConfig, Label("Full"))

NextGrid == \E value \in EvaluationTimesInputs(seq) : SetEvaluationTimes(value)

SpecGrid == InitGrid /\ [][NextGrid]_vars

-----------------------------------------------------------------------------
(* Properties of run *)

RECURSIVE SumOf(_)
SumOf(s) == IF s = << >> THEN 0 ELSE Head(s) + SumOf(Tail(s))

\* C1: a run that returns takes its mode from the noise set (and eta): with
\* noise within {dephasing, SPAM} and SPAM absent or eta = 0 it calls the
\* propagator once and returns the coherent result; with noise within
\* {dephasing, SPAM}, SPAM present and eta > 0 it returns statistics
\* aggregated over the distinct preparation configurations, without
\* redrawing the noise; with doppler or amplitude noise it makes one solve
\* per run, each after a new draw of the noise.
C1_ModeFromNoise ==
    (outcome.call = "run" /\ outcome.exc = "none") =>
      LET noise == config.noise
          r == outcome.run
      IN  /\ (noise \subseteq {"dephasing", "SPAM"}
                /\ ("SPAM" \notin noise \/ config.eta = 0))
             => /\ outcome.kind = "CoherentResults"
                /\ Len(r.solves) = 1
          /\ (noise \subseteq {"dephasing", "SPAM"} /\ "SPAM" \in noise
                /\ config.eta > 0)
             => /\ outcome.kind = "NoisyResults"
                /\ Len(r.solves) = Cardinality(Range(r.draws))
                /\ \A k \in DOMAIN r.solves : r.solves[k].epochs.noise = 0
          /\ ("doppler" \in noise \/ "amplitude" \in noise)
             => /\ outcome.kind = "NoisyResults"
                /\ Len(r.solves) = config.runs
                /\ \A k \in DOMAIN r.solves : r.solves[k].epochs.noise = k

\* a run over deduplicated configurations has returned, with dephasing on
C1_Witness ==
    /\ outcome.call = "run" /\ outcome.exc = "none"
    /\ outcome.kind = "NoisyResults"
    /\ config.noise = {"dephasing", "SPAM"}
    /\ Len(outcome.run.solves) = 1

\* C2: in Case B (noise within {dephasing, SPAM}, SPAM with eta > 0) a run
\* that returns has drawn `runs` bitstrings, has called the propagator exactly
\* once for each distinct bitstring drawn, and the multiplicities it weighted
\* the calls with sum to `runs`.
C2_OncePerDistinctBitstring ==
    (/\ outcome.call = "run" /\ outcome.exc = "none"
     /\ config.noise \subseteq {"dephasing", "SPAM"}
     /\ "SPAM" \in config.noise /\ config.eta > 0) =>
      LET r == outcome.run
      IN  /\ Len(r.draws) = config.runs
          /\ \A b \in Range(r.draws) :
               Cardinality({ k \in DOMAIN r.solves :
                               r.solves[k].bad_atoms = b }) = 1
          /\ \A k \in DOMAIN r.solves : r.solves[k].bad_atoms \in Range(r.draws)
          /\ Len(r.reps) = Len(r.solves)
          /\ SumOf(r.reps) = config.runs

\* of the bitstrings drawn, two are the same: fewer calls than draws
C2_Witness ==
    /\ outcome.call = "run" /\ outcome.exc = "none"
    /\ ~outcome.run.update_ham
    /\ Len(outcome.run.draws) = MaxRuns
    /\ Len(outcome.run.solves) < Len(outcome.run.draws)

\* C3: in Cases B and C, at every evaluation time the histogram accumulated
\* over all realizations weighs runs * samples_per_run, so the probabilities
\* returned for that time sum to 1.
C3_HistogramWeight ==
    (outcome.call = "run" /\ outcome.exc = "none"
       /\ outcome.kind = "NoisyResults") =>
      /\ DOMAIN outcome.total_run_prob = DOMAIN EvalTimesFull(seq)
      /\ \A t \in DOMAIN outcome.total_run_prob :
           /\ outcome.run.total_count[t]["00"] + outcome.run.total_count[t]["11"]
                = config.runs * config.samples_per_run
           /\ outcome.total_run_prob[t]["00"].den > 0
           /\ outcome.total_run_prob[t]["00"].den
                = outcome.total_run_prob[t]["11"].den
           /\ outcome.total_run_prob[t]["00"].num
                + outcome.total_run_prob[t]["11"].num
                = outcome.total_run_prob[t]["00"].den

\* statistics of several runs of several samples each were returned
C3_Witness ==
    /\ outcome.call = "run" /\ outcome.exc = "none"
    /\ outcome.kind = "NoisyResults"
    /\ config.runs = MaxRuns /\ config.samples_per_run = MaxSamples
    /\ outcome.n_measures = MaxRuns * MaxSamples

\* C4: in Case C (doppler or amplitude noise) run makes exactly `runs`
\* iterations; the k-th redraws the noise (draw k), extracts the samples
\* from that draw, builds the Hamiltonian from those samples and calls the
\* propagator once, with multiplicity 1: no call uses a Hamiltonian of an
\* earlier draw.
C4_FreshHamiltonianPerRun ==
    /\ (pc = "loop" /\ rs.update_ham) =>
         /\ rs.i <= config.runs
         /\ Len(rs.solves) = rs.i
         /\ epochs = [noise |-> rs.i, samples |-> rs.i, ham |-> rs.i]
    /\ (/\ outcome.call = "run" /\ outcome.exc = "none"
        /\ ("doppler" \in config.noise \/ "amplitude" \in config.noise)) =>
         LET r == outcome.run
         IN  /\ r.i = config.runs
             /\ Len(r.solves) = config.runs
             /\ \A k \in DOMAIN r.solves :
                  /\ r.reps[k] = 1
                  /\ r.solves[k].epochs
                       = [noise |-> k, samples |-> k, ham |-> k]

\* two runs were made whose draws of the preparation errors differ
C4_Witness ==
    /\ outcome.call = "run" /\ outcome.exc = "none"
    /\ outcome.run.update_ham
    /\ Len(outcome.run.solves) = MaxRuns
    /\ outcome.run.solves[1].bad_atoms # outcome.run.solves[2].bad_atoms

\* C5: in both interaction modes run raises the error of the unsupported
\* combination exactly when SPAM is in the noise, eta > 0 and the initial
\* state is not the all-ground state; it then has called no propagator; and
\* with the all-ground initial state the guard raises nothing.
C5_GuardOnPreparationErrors ==
    (outcome.call = "run" /\ outcome.exc # "running") =>
      LET ground == set_initial_state(seq, basis_name, initial_state,
                                      AllGroundLabel).state
          unsupported ==
            "NotImplementedError: preparation errors with non-ground state"
      IN  /\ outcome.exc = unsupported
               <=> ("SPAM" \in config.noise /\ config.eta > 0
                      /\ initial_state # ground)
          /\ outcome.exc = unsupported => outcome.run.solves = << >>
          /\ initial_state = ground
               => outcome.exc \notin {unsupported, "KeyError: 'g'"}

-----------------------------------------------------------------------------
(* Properties of the configuration *)

\* C6: a call of set_config that fails (its argument is not a SimConfig, a
\* noise type is not supported by the interaction mode, or dephasing is asked
\* for in the digital or all basis) leaves the configuration as it was before
\* the call.
C6_FailedSetConfigKeepsConfig ==
    [][ (/\ outcome'.call = "set_config"
         /\ outcome'.exc \in
              { "ValueError: not a SimConfig",
                "NotImplementedError: noise not supported",
                "NotImplementedError: dephasing in digital or all basis" })
        => config' = config ]_vars

\* dephasing was refused in the digital or all basis, and the configuration
\* gone back to is not the default one
C6_Witness ==
    /\ outcome.call = "set_config"
    /\ outcome.exc = "NotImplementedError: dephasing in digital or all basis"
    /\ config.noise # {}

\* C7: in every state reached by set_config, add_config, reset_config and
\* run: without SPAM in the noise, or with eta = 0, no atom is flagged bad;
\* without doppler in the noise, every doppler detuning is zero.
C7_NeutralNoiseState ==
    /\ ("SPAM" \notin config.noise \/ config.eta = 0)
         => \A q \in QubitIds(seq) : bad_atoms[q] = FALSE
    /\ "doppler" \notin config.noise
         => \A q \in QubitIds(seq) : doppler_detune[q] = 0

\* SPAM is in the noise with eta = 0 and doppler is too: no atom is bad while
\* the detunings are drawn
C7_Witness ==
    /\ outcome.call = "add_config" /\ outcome.exc = "none"
    /\ "SPAM" \in config.noise /\ config.eta = 0
    /\ \A q \in QubitIds(seq) : ~bad_atoms[q]
    /\ \E q \in QubitIds(seq) : doppler_detune[q] # 0

\* C8: after add_config(c) succeeds the noise is the union of the former
\* noise and c's; the parameters of a noise type the former configuration
\* had are the former ones, those of a type c adds are c's; and add_config(c)
\* right after add_config(c) changes nothing.
C8_AddConfigMerges ==
    [][ (outcome'.call = "add_config" /\ outcome'.exc = "none") =>
          LET c == outcome'.arg
              kept(type) == type \in config.noise
              added(type) == type \in c.noise \ config.noise
          IN  /\ config'.noise = config.noise \cup c.noise
              /\ kept("SPAM") => /\ config'.eta = config.eta
                                 /\ config'.epsilon = config.epsilon
                                 /\ config'.epsilon_prime = config.epsilon_prime
              /\ added("SPAM") => /\ config'.eta = c.eta
                                  /\ config'.epsilon = c.epsilon
                                  /\ config'.epsilon_prime = c.epsilon_prime
              /\ kept("doppler") => config'.temperature = config.temperature
              /\ added("doppler") => config'.temperature = c.temperature
              /\ kept("amplitude") => config'.laser_waist = config.laser_waist
              /\ added("amplitude") => config'.laser_waist = c.laser_waist
              /\ kept("dephasing") => config'.dephasing_prob = config.dephasing_prob
              /\ added("dephasing") => config'.dephasing_prob = c.dephasing_prob
              /\ (/\ outcome.call = "add_config" /\ outcome.exc = "none"
                  /\ outcome.arg = c) => config' = config ]_vars

-----------------------------------------------------------------------------
(* Properties of build_operator *)

\* C9: build_operator raises an error, and returns no operator, whenever one
\* of the (operator, target) pairs has a target list with an unknown qubit
\* identifier, a target list with the same identifier twice, or a string
\* operator that is no key of op_matrix.
C9_InvalidPairFails ==
    LET ops == op_result.operations
        invalid(p) ==
          \/ /\ ~p.qubits.global
             /\ \/ ~(Range(p.qubits.ids) \subseteq QubitIds(seq))
                \/ \E i, j \in DOMAIN p.qubits.ids :
                     i # j /\ p.qubits.ids[i] = p.qubits.ids[j]
          \/ /\ p.operator.is_str
             /\ p.operator.name \notin DOMAIN op_matrix(basis_name)
    IN  (\E i \in DOMAIN ops : invalid(ops[i]))
          => (op_result.exc # "none" /\ op_result.op = << >>)

\* C10: build_operator takes a target qubit as its label in the register or
\* as its position 0..N-1, and puts the operator at that position, also when
\* the labels of the register are not the integers 0..N-1.
C10_LabelOrIndex ==
    LET ops == op_result.operations
        N == Size(seq)
        isLabel(t) == t \in QubitIds(seq)
        isIndex(t) == t.tag = "int" /\ t.n \in 0..(N - 1)
        positions(t) == { QidIndex(seq, x) : x \in { y \in QubitIds(seq) : y = t } }
                        \cup { k \in 0..(N - 1) : isIndex(t) /\ k = t.n }
        placed(operator, k) ==
          << [j \in 1..N |-> IF j = k + 1 THEN operator
                             ELSE op_matrix(basis_name)["I"]] >>
    IN  (/\ Len(ops) = 1
         /\ ~ops[1].operator.is_str
         /\ ~ops[1].qubits.global
         /\ Len(ops[1].qubits.ids) = 1
         /\ isLabel(ops[1].qubits.ids[1]) \/ isIndex(ops[1].qubits.ids[1]))
        => /\ op_result.exc = "none"
           /\ \E k \in positions(ops[1].qubits.ids[1]) :
                op_result.op = placed(ops[1].operator.matrix, k)

-----------------------------------------------------------------------------
(* Properties of the sampling grid and of the evaluation times *)

C12_EvaluationTimesSpan ==
    (outcome.call = "evaluation_times" /\ outcome.exc = "none") =>
        /\ \A i, j \in DOMAIN eval_times : i < j => eval_times[i] <= eval_times[j]
        /\ \E i \in DOMAIN eval_times : eval_times[i] = 0
        /\ \E i \in DOMAIN eval_times : eval_times[i] = seq.duration

-----------------------------------------------------------------------------
(* Properties of the Hamiltonian and of the samples *)

\* C13: with SPAM in the noise and eta = 1.0, after set_config (and
\* add_config, reset_config) and at every step of a run, every qubit is
\* flagged badly prepared and the Hamiltonian has no interaction term and no
\* drive term: it is the zero operator.
C13_AllBadIsZeroHamiltonian ==
    (pc # "failed" /\ "SPAM" \in config.noise /\ config.eta = 2) =>
        /\ \A q \in QubitIds(seq) : bad_atoms[q]
        /\ hamiltonian.interaction = << >>
        /\ hamiltonian.global = {}
        /\ hamiltonian.local = {}
        /\ IsZeroOperator(hamiltonian)

\* a run under SPAM with eta = 1.0 has returned its statistics
C13_Witness ==
    /\ outcome.call = "run" /\ outcome.kind = "NoisyResults"
    /\ "SPAM" \in config.noise /\ config.eta = 2
    /\ Len(outcome.run.solves) >= 1
    /\ \A q \in QubitIds(seq) : bad_atoms[q]

\* C14: the Hamiltonian stored by _construct_hamiltonian is its own adjoint
\* at every sampling time: each term, with its coefficient at that time,
\* occurs in it as often as its adjoint does.
C14_HamiltonianIsHermitian ==
    pc # "failed" =>
      LET terms == QobjEvo(seq, hamiltonian)
          At(x, i) == [op |-> x.op, at |-> x.at, c |-> x.coeff[i]]
          DagAt(y) == [op |-> DagOp(y.op), at |-> y.at,
                       c |-> << y.c[1], 0 - y.c[2] >>]
          CountAt(i, y) == Cardinality({ x \in terms : At(x, i) = y })
                           + Cardinality({ x \in hamiltonian.dag : At(x, i) = y })
      IN  \A i \in DOMAIN sampling_times :
            \A y \in { At(x, i) : x \in terms \cup hamiltonian.dag } :
              CountAt(i, y) = CountAt(i, DagAt(y))

\* a Hamiltonian redrawn in run's loop under doppler noise, with a drive
\* whose phase is not zero: its adjoint is another term
C14_Witness ==
    /\ pc = "loop" /\ rs.i >= 1
    /\ "doppler" \in config.noise
    /\ \E x \in QobjEvo(seq, hamiltonian) :
         /\ DagTerm(x) # x
         /\ \E i \in DOMAIN x.coeff : x.coeff[i][2] # 0
    /\ hamiltonian.interaction # << >>

\* C15: at every call of the propagator in run's loop (Cases B and C) a
\* qubit flagged badly prepared has all-zero samples and no drive term in
\* the Hamiltonian being solved, and a qubit that is not flagged has the
\* drive terms of the pulses that target it; in Case B these are the flags
\* of the bitstring of the iteration.
C15_DriveFollowsBadAtoms ==
    (pc = "loop" /\ rs.i >= 1) =>
      LET solved == rs.solves[rs.i]
          scheduled(q) ==
            \E ci \in DOMAIN seq.channels :
              \E si \in DOMAIN seq.channels[ci].slots :
                LET slot == seq.channels[ci].slots[si]
                IN  slot.isPulse /\ q \in slot.targets /\ slot.amp # 0
          driven(q) == \E x \in hamiltonian.local : x.qid = q
          zero(q) ==
            \A b \in BasesOf(seq) :
              q \in DOMAIN samples["Local"][b] =>
                \A t \in 0..(seq.duration - 1) :
                  /\ samples["Local"][b][q].amp[t] = 0
                  /\ samples["Local"][b][q].det[t] = 0
                  /\ samples["Local"][b][q].phase[t] = 0
      IN  /\ solved.bad_atoms = bad_atoms
          /\ ~rs.update_ham => bad_atoms = rs.initial_configs[rs.i].bits
          /\ \A q \in QubitIds(seq) :
                /\ bad_atoms[q] => (zero(q) /\ ~driven(q))
                /\ (~bad_atoms[q] /\ scheduled(q)) => driven(q)

\* C16: on a sequence with an SLM mask, whatever its channels and the
\* noise, the extraction of the samples raises nothing, and it leaves every
\* masked qubit, in the basis of every declared channel, a Local entry whose
\* amplitude, detuning and phase are zero before the end of the mask.
C16_MaskedSamplesAreZeroed ==
    MaskApplies(seq) =>
      /\ outcome.exc # "KeyError"
      /\ \A q \in seq.slm_mask_targets :
           \A ci \in DOMAIN seq.channels :
             LET local == samples["Local"][seq.channels[ci].basis]
             IN  /\ q \in DOMAIN local
                 /\ \A t \in 0..(seq.slm_mask_time[2] - 1) :
                      /\ local[q].amp[t] = 0
                      /\ local[q].det[t] = 0
                      /\ local[q].phase[t] = 0

\* C17 as stated: on the coherent global path with an SLM mask only the
\* masked qubits have Local entries, these hold nothing from the end of the
\* mask on, and the rest is in the shared Global entry.
C17_OnlyMaskedQubitsGoLocal ==
    (pc # "failed" /\ outcome.exc # "KeyError" /\ MaskApplies(seq)) =>
      \A ci \in DOMAIN seq.channels :
        CoherentGlobal(config, seq.channels[ci]) =>
          LET local == samples["Local"][seq.channels[ci].basis]
          IN  /\ DOMAIN local \subseteq seq.slm_mask_targets
              /\ \A q \in DOMAIN local :
                   \A t \in seq.slm_mask_time[2]..(seq.duration - 1) :
                     local[q].amp[t] = 0 /\ local[q].det[t] = 0

\* C17, amended: on the coherent global path with an SLM mask, a pulse that
\* starts before the end of the mask is written, over its whole length, to
\* the Local entry of every qubit it targets, masked or not, and the
\* masked qubits' entries are then zeroed before the end of the mask; a
\* pulse that starts at the end of the mask or later is written to the
\* shared Global entry only.
C17_PulsesUnderMaskGoLocal ==
    (pc # "failed" /\ outcome.exc # "KeyError" /\ MaskApplies(seq)) =>
      \A ci \in DOMAIN seq.channels :
        CoherentGlobal(config, seq.channels[ci]) =>
          LET ch == seq.channels[ci]
              mask_end == seq.slm_mask_time[2]
              local == samples["Local"][ch.basis]
              global == samples["Global"][ch.basis]
              pulses == { si \in DOMAIN ch.slots : ch.slots[si].isPulse }
              under == { si \in pulses : ch.slots[si].ti < mask_end }
              at(set, t) == { si \in set : ch.slots[si].ti <= t /\ t < ch.slots[si].tf }
              masked(q, t) == q \in seq.slm_mask_targets /\ t < mask_end
          IN  /\ DOMAIN local = UNION { ch.slots[si].targets : si \in under }
              /\ (DOMAIN global # {}) <=> (pulses \ under # {})
              /\ \A t \in 0..(seq.duration - 1) :
                   /\ \A q \in DOMAIN local :
                        IF masked(q, t) \/ at(under, t) = {}
                        THEN local[q].amp[t] = 0 /\ local[q].det[t] = 0
                        ELSE \E si \in at(under, t) :
                               /\ local[q].amp[t] = ch.slots[si].amp * AmpOne
                               /\ local[q].det[t] = ch.slots[si].det
                               /\ local[q].phase[t] = ch.slots[si].phase
                   /\ DOMAIN global # {} =>
                        IF at(pulses \ under, t) = {}
                        THEN global.amp[t] = 0 /\ global.det[t] = 0
                        ELSE \E si \in at(pulses \ under, t) :
                               /\ global.amp[t] = ch.slots[si].amp * AmpOne
                               /\ global.det[t] = ch.slots[si].det
                               /\ global.phase[t] = ch.slots[si].phase

\* set_config has put a simulation with an SLM mask on the coherent global
\* path: the unmasked qubit has a Local entry with the first pulse, and the
\* second pulse is in the Global entry
C17_Witness ==
    /\ outcome.call = "set_config" /\ outcome.exc = "none"
    /\ MaskApplies(seq) /\ config.noise \subseteq {"dephasing"}
    /\ ~seq.in_xy
    /\ \E q \in DOMAIN samples["Local"]["ground-rydberg"] :
         /\ q \notin seq.slm_mask_targets
         /\ samples["Local"]["ground-rydberg"][q].amp[0] # 0
    /\ DOMAIN samples["Global"]["ground-rydberg"] # {}

\* the pairs (positions from 0) of well-prepared qubits outside the set out
GoodPairs(out) ==
    { p \in (0..(Size(seq) - 1)) \X (0..(Size(seq) - 1)) :
        /\ p[1] < p[2]
        /\ \A k \in {p[1], p[2]} :
             ~bad_atoms[seq.register[k + 1]] /\ seq.register[k + 1] \notin out }

\* the interaction of the stored Hamiltonian is two gated components: at
\* the sampling times before the end of the mask only the pairs of
\* well-prepared unmasked qubits are coupled, from the end of the mask on
\* all the pairs of well-prepared qubits
GatedInteraction ==
    /\ Len(hamiltonian.interaction) = 2
    /\ LET full == hamiltonian.interaction[1]
           under == hamiltonian.interaction[2]
       IN  /\ full.pairs = GoodPairs({})
           /\ under.pairs = GoodPairs(seq.slm_mask_targets)
           /\ DOMAIN full.coeff = DOMAIN sampling_times
           /\ DOMAIN under.coeff = DOMAIN sampling_times
           /\ \A i \in DOMAIN sampling_times :
                /\ full.coeff[i] \in {0, 1}
                /\ under.coeff[i] = 1 - full.coeff[i]
                /\ full.coeff[i] = 1 <=> sampling_times[i] >= seq.slm_mask_time[2]

\* the Hamiltonian is the one built from the current noise state, on a
\* sequence with a mask interval, with at least two well-prepared qubits
MaskedAndTwoGood ==
    /\ pc # "failed" /\ outcome.exc = "none"
    /\ seq.slm_mask_time # << >>
    /\ Cardinality({ q \in QubitIds(seq) : ~bad_atoms[q] }) >= 2

\* C18 as stated: with a mask interval and at least two well-prepared
\* qubits the interaction is two gated components with complementary 0/1
\* coefficients, the masked one before the end of the mask and the full one
\* from then on, and no pair with a badly prepared qubit in either.
C18_InteractionIsGated == MaskedAndTwoGood => GatedInteraction

\* C18, amended: the same in every basis but the digital one, where the
\* Hamiltonian has no interaction term at all.
C18_InteractionIsGatedOutsideDigital ==
    MaskedAndTwoGood =>
        IF basis_name = "digital" THEN hamiltonian.interaction = << >>
        ELSE GatedInteraction

\* three qubits, the first badly prepared or none: the component under the
\* mask couples a pair in one state and none in another
C18_Witness ==
    /\ MaskedAndTwoGood
    /\ outcome.call = "set_config"
    /\ Size(seq) = 3
    /\ \E q \in QubitIds(seq) : bad_atoms[q]
    /\ hamiltonian.interaction[1].pairs # {}
    /\ hamiltonian.interaction[2].pairs = {}

-----------------------------------------------------------------------------
(* Properties of the state a run and the configuration calls leave *)

C20_CollapseOpsOnlyWithDephasing ==
    (pc # "failed" /\ collapse_ops # << >>) => "dephasing" \in config.noise

\* every operator held in self.operators is what build_operator returns now
\* for its key
CacheIsCurrent ==
    \A key \in DOMAIN operators :
      LET r == build_operator(seq, basis_name,
                              << Pair(Named(key.op_id), key.qubits) >>)
      IN  r.exc = "none" /\ operators[key] = r.op

\* C21: the basis name (with it the per-qubit dimension and op_matrix, which
\* are set with it and nowhere else) is the one of the first Hamiltonian
\* construction in every step of set_config, add_config, reset_config and
\* run, a dephasing rollback included; an operator once held in
\* self.operators is kept as it is, and every operator held there equals
\* what build_operator returns for its key.
C21_BasisAndOperatorsStay ==
    /\ [](pc # "failed" => (basis_name # "unset" /\ CacheIsCurrent))
    /\ [][ /\ basis_name' = basis_name
           /\ \A key \in DOMAIN operators :
                key \in DOMAIN operators' /\ operators'[key] = operators[key]
       ]_vars

\* set_config has rolled a dephasing configuration back on a digital or
\* three-level basis, with operators of Global and of Local entries held
C21_Witness ==
    /\ outcome.call = "set_config"
    /\ outcome.exc = "NotImplementedError: dephasing in digital or all basis"
    /\ basis_name \in {"digital", "all"}
    /\ \E k1, k2 \in DOMAIN operators :
         k1.addr = "Global" /\ k2.addr = "Local"

====
